---- MODULE Spec2Model ----
(***************************************************************************)
(* Interrupt-driven 4x4 matrix keypad scanner (src/matrix_robust.c).       *)
(*                                                                         *)
(* The program state is the set of file-scope statics of matrix_robust.c.  *)
(* Every handler is an operator from a record of that state (Mem) to the   *)
(* record after the handler returned; an action applies one handler and    *)
(* commits the result.  The clock (now) and the column inputs (raw) are    *)
(* the external collaborators.  The obs_* and *_log variables are history  *)
(* variables: they record what the scanner was shown and what it           *)
(* delivered, and never influence the program state.                       *)
(***************************************************************************)
EXTENDS Integers, Sequences, FiniteSets, TLC

\* ---------------------------------------------------------------- constants
MATRIX_ROWS == 4
MATRIX_COLS == 4

KEY_IDLE == 0
KEY_PRESSED == 1
KEY_HELD == 2
KEY_RELEASED == 3

ERROR_STUCK_KEY == 1
ERROR_GHOST_KEY == 2

\* matrix.h: scan cycles
DEBOUNCE_PRESS == 3
DEBOUNCE_RELEASE == 3

DEBOUNCE_PRESS_MS == 20
DEBOUNCE_RELEASE_MS == 50
STUCK_KEY_TIMEOUT_MS == 5000

EVENT_QUEUE_SIZE == 32
ERROR_QUEUE_SIZE == 8

\* ------------------------------------------------------------------- bounds
\* uint32_t values are kept modulo WordMod (TLC integers stop short of 2^32);
\* within MaxScans scan steps no clock or counter value comes near it
WordMod == 1048576
\* the modulus of the statistics counters in the runs that follow them around
\* their wrap: uint32_t scaled down to two bits
NarrowMod == 4
\* scan steps in one run around the wrap
MaxWrapScans == 5
\* errors accepted in one run around the wrap
MaxWrapErrors == 5
\* scan steps and accepted errors in one run of the statistics interface
MaxStatScans == 3
MaxStatErrors == 2
\* items one queue may have taken while the other queue is being filled
MaxOther == 1
\* scan steps in one run with the detectors switched off
MaxOffScans == 9
\* enqueue calls in one run of the clear_events scenario
MaxClearCalls == 5
\* enqueue calls and clear_events calls while the consumer is interrupted
MaxIsrCalls == 4
MaxIsrClears == 1
\* matrix_scan calls of the polled scanner
MaxPolledScans == 21
MaxInitCalls == 2
MaxReinitScans == 6
\* like reads of a cell counted by the monitor
MaxRun == 4
\* events that went through the queue before the consumer is interrupted
EarlierEvents == 30
\* the repeating timer fires every ScanMs milliseconds (scan_interval_us / 1000)
ScanMs == 5
\* scan steps in one run
MaxScans == 24
\* scan steps in one run of the ghost scenario
MaxGhostScans == 14
\* changes of the raw contacts in one run
MaxToggles == 3
\* direct enqueue calls in the queue harnesses
MaxEnq == 34
MaxErrEnq == 10
\* stuck-key timeouts the application configures besides the default
ShortStuckMs == 25
MaxPowerScans == 8

Rows == 0..(MATRIX_ROWS - 1)
Cols == 0..(MATRIX_COLS - 1)
Cells == Rows \X Cols

DEFAULT_KEYMAP ==
    [rc \in Cells |->
        LET t == << <<1, 2, 3, 10>>, <<4, 5, 6, 11>>, <<7, 8, 9, 12>>, <<0, 15, 14, 13>> >>
        IN  t[rc[1] + 1][rc[2] + 1]]

\* static volatile uint32_t debounce_time_press / debounce_time_release:
\* initialised once, never assigned
debounce_time_press == DEBOUNCE_PRESS_MS
debounce_time_release == DEBOUNCE_RELEASE_MS

VARIABLES
    \* external collaborators
    now,                    \* to_ms_since_boot(get_absolute_time())
    raw,                    \* raw[<<r,c>>]: column c reads low while row r is driven
    \* statics of matrix_robust.c
    keymap,
    current_row,
    key_state,
    key_timestamp,
    event_queue,
    event_queue_head,
    event_queue_tail,
    error_queue,
    error_queue_head,
    error_queue_tail,
    key_callback,           \* TRUE: a callback is registered, FALSE: NULL
    error_callback,
    scanning_active,
    ghost_detection_enabled,
    stuck_detection_enabled,
    stuck_key_timeout,
    stats,
    pressed_keys,
    wake_irq,               \* column falling-edge interrupts enabled
    scan_timer,             \* repeating timers armed with scan_timer_callback
    word,                   \* the modulus of the uint32_t fields of stats
    faulted,                \* the processor took a fault and stopped
    row_gpio,               \* the level each row output drives (1 high, 0 low)
    event_mutex,            \* owner of event_mutex: "free" or "main"
    error_mutex,            \* owner of error_mutex
    pc,                     \* the statement the normal context is at, "idle" between calls
    frame,                  \* locals of the consumer call in progress
    \* what the program handed out
    key_cb_log,             \* KeyEvents passed to key_callback, in order
    error_cb_log,           \* ErrorEvents passed to error_callback, in order
    enq_events,             \* KeyEvents stored by enqueue_event, in order
    enq_errors,             \* ErrorEvents stored by enqueue_error, in order
    got_events,             \* KeyEvents returned by matrix_robust_get_event, in order
    got_errors,             \* ErrorEvents returned by matrix_robust_get_error, in order
    ret,                    \* return value of the last consumer call
    read_log,               \* the row outputs at the column reads of each scan step
    cleared,                \* per matrix_robust_clear_events call, the events it discarded
    \* statics of matrix.c (the polled scanner; keymap, current_row and the row
    \* outputs above stand for its own copies when matrix_scan runs)
    last_key_state,
    debounce_counter,
    current_key_state,
    recent_reads,           \* per cell, how many reads by matrix_scan in a row were alike:
                            \* n closed reads n, n open reads -n, none yet 0
    recorded,               \* what the last matrix_scan call stored in last_key_state
    \* what the scanner was shown
    obs_level,              \* level of the cell at the last scan of its row
    obs_since,              \* time of the first scan of the current run of equal reads
    obs_seen,               \* time of the last scan of the cell's row
    obs_log,                \* debounce-respecting transitions seen, in order
    toggles,                \* raw contact changes so far
    calls,                  \* direct enqueue calls so far (queue harness)
    op                      \* the last operation and the engine state it met

progVars == <<keymap, current_row, key_state, key_timestamp, event_queue,
              event_queue_head, event_queue_tail, error_queue, error_queue_head,
              error_queue_tail, key_callback, error_callback, scanning_active,
              ghost_detection_enabled, stuck_detection_enabled, stuck_key_timeout,
              stats, pressed_keys, wake_irq, scan_timer, word, faulted, row_gpio,
              event_mutex, error_mutex, pc, frame, cleared,
              last_key_state, debounce_counter, current_key_state, recent_reads,
              recorded,
              key_cb_log, error_cb_log, enq_events, enq_errors, got_events,
              got_errors, ret, read_log>>
obsVars == <<obs_level, obs_since, obs_seen, obs_log>>
vars == <<now, raw, progVars, obsVars, toggles, calls, op>>

\* ------------------------------------------------------------ program state
Mem ==
    [keymap |-> keymap, current_row |-> current_row, key_state |-> key_state,
     key_timestamp |-> key_timestamp, event_queue |-> event_queue,
     event_queue_head |-> event_queue_head, event_queue_tail |-> event_queue_tail,
     error_queue |-> error_queue, error_queue_head |-> error_queue_head,
     error_queue_tail |-> error_queue_tail, key_callback |-> key_callback,
     error_callback |-> error_callback, scanning_active |-> scanning_active,
     ghost_detection_enabled |-> ghost_detection_enabled,
     stuck_detection_enabled |-> stuck_detection_enabled,
     stuck_key_timeout |-> stuck_key_timeout, stats |-> stats,
     pressed_keys |-> pressed_keys, wake_irq |-> wake_irq, scan_timer |-> scan_timer,
     word |-> word, faulted |-> faulted, row_gpio |-> row_gpio, read_log |-> read_log,
     event_mutex |-> event_mutex, error_mutex |-> error_mutex, pc |-> pc,
     frame |-> frame, cleared |-> cleared,
     last_key_state |-> last_key_state, debounce_counter |-> debounce_counter,
     current_key_state |-> current_key_state, recent_reads |-> recent_reads,
     recorded |-> recorded,
     key_cb_log |-> key_cb_log, error_cb_log |-> error_cb_log,
     enq_events |-> enq_events, enq_errors |-> enq_errors,
     got_events |-> got_events, got_errors |-> got_errors, ret |-> ret]

Commit(m) ==
    /\ keymap' = m.keymap
    /\ current_row' = m.current_row
    /\ key_state' = m.key_state
    /\ key_timestamp' = m.key_timestamp
    /\ event_queue' = m.event_queue
    /\ event_queue_head' = m.event_queue_head
    /\ event_queue_tail' = m.event_queue_tail
    /\ error_queue' = m.error_queue
    /\ error_queue_head' = m.error_queue_head
    /\ error_queue_tail' = m.error_queue_tail
    /\ key_callback' = m.key_callback
    /\ error_callback' = m.error_callback
    /\ scanning_active' = m.scanning_active
    /\ ghost_detection_enabled' = m.ghost_detection_enabled
    /\ stuck_detection_enabled' = m.stuck_detection_enabled
    /\ stuck_key_timeout' = m.stuck_key_timeout
    /\ stats' = m.stats
    /\ pressed_keys' = m.pressed_keys
    /\ wake_irq' = m.wake_irq
    /\ scan_timer' = m.scan_timer
    /\ word' = m.word
    /\ faulted' = m.faulted
    /\ row_gpio' = m.row_gpio
    /\ read_log' = m.read_log
    /\ event_mutex' = m.event_mutex
    /\ error_mutex' = m.error_mutex
    /\ pc' = m.pc
    /\ frame' = m.frame
    /\ cleared' = m.cleared
    /\ last_key_state' = m.last_key_state
    /\ debounce_counter' = m.debounce_counter
    /\ current_key_state' = m.current_key_state
    /\ recent_reads' = m.recent_reads
    /\ recorded' = m.recorded
    /\ key_cb_log' = m.key_cb_log
    /\ error_cb_log' = m.error_cb_log
    /\ enq_events' = m.enq_events
    /\ enq_errors' = m.enq_errors
    /\ got_events' = m.got_events
    /\ got_errors' = m.got_errors
    /\ ret' = m.ret

KeyEvent(key, state, row, col, timestamp) ==
    [key |-> key, state |-> state, row |-> row, col |-> col, timestamp |-> timestamp]

ErrorEvent(error_code, row, col, timestamp) ==
    [error_code |-> error_code, row |-> row, col |-> col, timestamp |-> timestamp]

\* no consumer call in progress
NoFrame == [head |-> 0, event |-> KeyEvent(0, 0, 0, 0, 0)]

ZeroStats ==
    [total_scans |-> 0, total_events |-> 0, total_errors |-> 0,
     queue_overflows |-> 0, max_scan_time_us |-> 0, avg_scan_time_us |-> 0]

\* Stopped, Active or LowPower, as the flags of m tell
EngineState(m) ==
    IF m.scanning_active THEN "Active"
    ELSE IF m.wake_irq THEN "LowPower"
    ELSE "Stopped"

\* the operation an action performs, with the engine state it starts from;
\* stopped: matrix_robust_stop was called and neither matrix_robust_start nor
\* matrix_robust_exit_low_power has been called since; was_active: the engine
\* was Active at this or an earlier operation
Op(name) ==
    [name |-> name, from |-> EngineState(Mem),
     stopped |-> IF name = "stop" THEN TRUE
                 ELSE IF name \in {"start", "exit_low_power"} THEN FALSE
                 ELSE op.stopped,
     was_active |-> op.was_active \/ scanning_active]

\* a - b in uint32_t
U32Sub(a, b) == (a - b) % WordMod

\* ------------------------------------------------------------------- queues
\* enqueue_event reporting the queue full one slot early
enqueue_event_early_full(m, event) ==
    LET next_head == (m.event_queue_head + 1) % EVENT_QUEUE_SIZE
    IN  IF next_head = m.event_queue_tail
           \/ (next_head + 1) % EVENT_QUEUE_SIZE = m.event_queue_tail
        THEN [m EXCEPT !.stats.queue_overflows = (@ + 1) % m.word]
        ELSE [m EXCEPT !.event_queue[m.event_queue_head] = event,
                       !.event_queue_head = next_head,
                       !.enq_events = Append(@, event)]

\* enqueue_event making room on the full queue by giving up the oldest event
enqueue_event_drop_oldest(m, event) ==
    LET next_head == (m.event_queue_head + 1) % EVENT_QUEUE_SIZE
    IN  IF next_head = m.event_queue_tail
        THEN [m EXCEPT !.stats.queue_overflows = (@ + 1) % m.word,
                       !.event_queue[m.event_queue_head] = event,
                       !.event_queue_head = next_head,
                       !.event_queue_tail = (@ + 1) % EVENT_QUEUE_SIZE]
        ELSE [m EXCEPT !.event_queue[m.event_queue_head] = event,
                       !.event_queue_head = next_head,
                       !.enq_events = Append(@, event)]

enqueue_event(m, event) ==
    LET next_head == (m.event_queue_head + 1) % EVENT_QUEUE_SIZE
    IN  IF next_head = m.event_queue_tail
        THEN [m EXCEPT !.stats.queue_overflows = (@ + 1) % m.word]
        ELSE [m EXCEPT !.event_queue[m.event_queue_head] = event,
                       !.event_queue_head = next_head,
                       !.enq_events = Append(@, event)]

\* enqueue_error starting total_errors over after 2
enqueue_error_reset_count(m, error) ==
    LET next_head == (m.error_queue_head + 1) % ERROR_QUEUE_SIZE
    IN  IF next_head = m.error_queue_tail
        THEN m
        ELSE [m EXCEPT !.error_queue[m.error_queue_head] = error,
                       !.error_queue_head = next_head,
                       !.stats.total_errors = IF @ >= 2 THEN 0 ELSE @ + 1,
                       !.enq_errors = Append(@, error),
                       !.error_cb_log = IF m.error_callback THEN Append(@, error) ELSE @]

enqueue_error(m, error) ==
    LET next_head == (m.error_queue_head + 1) % ERROR_QUEUE_SIZE
    IN  IF next_head = m.error_queue_tail
        THEN m
        ELSE [m EXCEPT !.error_queue[m.error_queue_head] = error,
                       !.error_queue_head = next_head,
                       !.stats.total_errors = (@ + 1) % m.word,
                       !.enq_errors = Append(@, error),
                       !.error_cb_log = IF m.error_callback THEN Append(@, error) ELSE @]

\* matrix_robust_get_event returning the newest event instead of the oldest
matrix_robust_get_event_newest(m) ==
    LET last == (m.event_queue_head + EVENT_QUEUE_SIZE - 1) % EVENT_QUEUE_SIZE
    IN  IF m.event_queue_head = m.event_queue_tail
        THEN [m EXCEPT !.ret = [ok |-> FALSE]]
        ELSE [m EXCEPT !.ret = [ok |-> TRUE, event |-> m.event_queue[last]],
                       !.got_events = Append(@, m.event_queue[last]),
                       !.event_queue_tail = (@ + 1) % EVENT_QUEUE_SIZE]

matrix_robust_get_event(m) ==
    IF m.event_queue_head = m.event_queue_tail
    THEN [m EXCEPT !.ret = [ok |-> FALSE]]
    ELSE [m EXCEPT !.ret = [ok |-> TRUE, event |-> m.event_queue[m.event_queue_tail]],
                   !.got_events = Append(@, m.event_queue[m.event_queue_tail]),
                   !.event_queue_tail = (@ + 1) % EVENT_QUEUE_SIZE]

\* matrix_robust_get_error handing out the oldest error without consuming it
matrix_robust_get_error_stale(m) ==
    IF m.error_queue_head = m.error_queue_tail
    THEN [m EXCEPT !.ret = [ok |-> FALSE]]
    ELSE [m EXCEPT !.ret = [ok |-> TRUE, event |-> m.error_queue[m.error_queue_tail]],
                   !.got_errors = Append(@, m.error_queue[m.error_queue_tail])]

matrix_robust_get_error(m) ==
    IF m.error_queue_head = m.error_queue_tail
    THEN [m EXCEPT !.ret = [ok |-> FALSE]]
    ELSE [m EXCEPT !.ret = [ok |-> TRUE, event |-> m.error_queue[m.error_queue_tail]],
                   !.got_errors = Append(@, m.error_queue[m.error_queue_tail]),
                   !.error_queue_tail = (@ + 1) % ERROR_QUEUE_SIZE]

\* ---------------------------------------------------------------- detectors
detect_ghost_key(m, row, col) ==
    LET keys_in_row == Cardinality({c \in Cols : m.pressed_keys[<<row, c>>] # 0})
        keys_in_col == Cardinality({r \in Rows : m.pressed_keys[<<r, col>>] # 0})
    IN  keys_in_row >= 2 /\ keys_in_col >= 2

detect_stuck_key(m, row, col, t) ==
    LET press_time == m.key_timestamp[<<row, col>>]
    IN  U32Sub(t, press_time) > m.stuck_key_timeout

\* ---------------------------------------------------------------- scan step
\* the chain with the press confirmed at the first closed read
PressBranch_no_debounce(current_state, elapsed) ==
    IF current_state = KEY_IDLE THEN "confirm"
    ELSE IF current_state = KEY_PRESSED THEN "held"
    ELSE "none"

\* the if / else-if chain taken when the column reads pressed
PressBranch(current_state, elapsed) ==
    IF current_state = KEY_IDLE THEN "first"
    ELSE IF current_state = KEY_IDLE /\ elapsed >= debounce_time_press THEN "confirm"
    ELSE IF current_state = KEY_PRESSED THEN "held"
    ELSE "none"

\* the if / else-if chain taken when the column reads open
ReleaseBranch(current_state, elapsed) ==
    IF current_state = KEY_PRESSED \/ current_state = KEY_HELD THEN "first"
    ELSE IF (current_state = KEY_PRESSED \/ current_state = KEY_HELD)
            /\ elapsed >= debounce_time_release THEN "confirm"
    ELSE "none"

\* key_callback(&event) if registered, else enqueue_event(&event)
deliver_key(m, event) ==
    IF m.key_callback
    THEN [m EXCEPT !.key_cb_log = Append(@, event)]
    ELSE enqueue_event(m, event)

confirm_press(m, row, col, t) ==
    IF m.ghost_detection_enabled /\ detect_ghost_key(m, row, col)
    THEN enqueue_error(m, ErrorEvent(ERROR_GHOST_KEY, row, col, t))
    ELSE LET event == KeyEvent(m.keymap[<<row, col>>], KEY_PRESSED, row, col, t)
             m1 == [m EXCEPT !.key_state[<<row, col>>] = KEY_PRESSED,
                             !.pressed_keys[<<row, col>>] = 1]
             m2 == deliver_key(m1, event)
         IN  [m2 EXCEPT !.stats.total_events = (@ + 1) % m.word]

hold_key(m, row, col, t) ==
    LET m1 == [m EXCEPT !.key_state[<<row, col>>] = KEY_HELD]
    IN  IF m1.stuck_detection_enabled /\ detect_stuck_key(m1, row, col, t)
        THEN enqueue_error(m1, ErrorEvent(ERROR_STUCK_KEY, row, col, t))
        ELSE m1

confirm_release(m, row, col, t) ==
    LET event == KeyEvent(m.keymap[<<row, col>>], KEY_RELEASED, row, col, t)
        m1 == [m EXCEPT !.key_state[<<row, col>>] = KEY_IDLE,
                        !.pressed_keys[<<row, col>>] = 0]
        m2 == deliver_key(m1, event)
    IN  [m2 EXCEPT !.stats.total_events = (@ + 1) % m.word]

\* a column loop that marks the cell in pressed_keys at its first closed read
scan_column_marks_first_read(m, col, pressed, t) ==
    LET row == m.current_row
        current_state == m.key_state[<<row, col>>]
        last_change == m.key_timestamp[<<row, col>>]
        elapsed == U32Sub(t, last_change)
    IN  IF pressed
        THEN CASE PressBranch(current_state, elapsed) = "first" ->
                    [m EXCEPT !.key_timestamp[<<row, col>>] = t,
                              !.key_state[<<row, col>>] = KEY_IDLE,
                              !.pressed_keys[<<row, col>>] = 1]
               [] PressBranch(current_state, elapsed) = "confirm" ->
                    confirm_press(m, row, col, t)
               [] PressBranch(current_state, elapsed) = "held" ->
                    hold_key(m, row, col, t)
               [] OTHER -> m
        ELSE CASE ReleaseBranch(current_state, elapsed) = "first" ->
                    [m EXCEPT !.key_timestamp[<<row, col>>] = t]
               [] ReleaseBranch(current_state, elapsed) = "confirm" ->
                    confirm_release(m, row, col, t)
               [] OTHER -> m

\* one iteration of the column loop
scan_column(m, col, pressed, t) ==
    LET row == m.current_row
        current_state == m.key_state[<<row, col>>]
        last_change == m.key_timestamp[<<row, col>>]
        elapsed == U32Sub(t, last_change)
    IN  IF pressed
        THEN CASE PressBranch(current_state, elapsed) = "first" ->
                    [m EXCEPT !.key_timestamp[<<row, col>>] = t,
                              !.key_state[<<row, col>>] = KEY_IDLE]
               [] PressBranch(current_state, elapsed) = "confirm" ->
                    confirm_press(m, row, col, t)
               [] PressBranch(current_state, elapsed) = "held" ->
                    hold_key(m, row, col, t)
               [] OTHER -> m
        ELSE CASE ReleaseBranch(current_state, elapsed) = "first" ->
                    [m EXCEPT !.key_timestamp[<<row, col>>] = t]
               [] ReleaseBranch(current_state, elapsed) = "confirm" ->
                    confirm_release(m, row, col, t)
               [] OTHER -> m

\* !gpio_get(col_gpios[col]): the pulled-up column reads low when a closed
\* contact joins it to a row that is driven low
gpio_read_low(m, col, levels) ==
    \E r \in Rows : m.row_gpio[r] = 0 /\ levels[<<r, col>>]

RECURSIVE scan_columns(_, _, _, _)
scan_columns(m, col, levels, t) ==
    IF col >= MATRIX_COLS THEN m
    ELSE scan_columns(scan_column(m, col, gpio_read_low(m, col, levels), t),
                      col + 1, levels, t)

\* all rows high, then the current row low; the outputs stay so while the
\* columns are read
activate_row(m) ==
    LET high == [r \in Rows |-> 1]
        out(row) == [high EXCEPT ![row] = 0]
    IN  [m EXCEPT !.row_gpio = out(m.current_row),
                  !.read_log = Append(@, out(m.current_row))]

\* a scan step that leaves its row low
deactivate_row_skipped(m) == m

deactivate_row(m) == [m EXCEPT !.row_gpio[m.current_row] = 1]

\* a cursor that moves on by two
next_row_by_two(m) == [m EXCEPT !.current_row = (@ + 2) % MATRIX_ROWS]

next_row(m) == [m EXCEPT !.current_row = (@ + 1) % MATRIX_ROWS]

\* what the division by total_scans = 0 does: the divider hands back zero or
\* all ones, or the processor faults
DivideByZero == {"zero", "ones", "fault"}

\* levels: what the columns read; t: the clock; scan_time: time_us_32() - scan_start;
\* div0: the outcome of the division should the divisor be 0
scan_timer_callback(m, levels, t, scan_time, div0) ==
    LET m0 == [m EXCEPT !.stats.total_scans = (@ + 1) % m.word]
        m1 == scan_columns(activate_row(m0), 0, levels, t)
        m2 == next_row(deactivate_row(m1))
        n == m2.stats.total_scans
        avg == m2.stats.avg_scan_time_us
        m3 == [m2 EXCEPT !.stats.max_scan_time_us = IF scan_time > @ THEN scan_time ELSE @]
    IN  IF n # 0
        THEN [m3 EXCEPT !.stats.avg_scan_time_us =
                  ((((avg * ((n - 1) % m.word)) % m.word) + scan_time) % m.word) \div n]
        ELSE CASE div0 = "zero" -> [m3 EXCEPT !.stats.avg_scan_time_us = 0]
               [] div0 = "ones" -> [m3 EXCEPT !.stats.avg_scan_time_us = m.word - 1]
               [] OTHER -> [m3 EXCEPT !.faulted = TRUE]

\* the two loops of matrix_robust_any_key_pressed, from (row, col) on
RECURSIVE any_key_from(_, _, _)
any_key_from(m, row, col) ==
    IF row >= MATRIX_ROWS THEN FALSE
    ELSE IF col >= MATRIX_COLS THEN any_key_from(m, row + 1, 0)
    ELSE IF m.key_state[<<row, col>>] # KEY_IDLE THEN TRUE
    ELSE any_key_from(m, row, col + 1)

matrix_robust_any_key_pressed(m) == any_key_from(m, 0, 0)

\* ------------------------------------------------ what the scanner was shown
Last(S) == CHOOSE i \in S : \A j \in S : j <= i

\* the debounced level of cell c after the transitions of log (open at start)
ObsStable(log, c) ==
    LET idx == {i \in 1..Len(log) : log[i].cell = c}
    IN  IF idx = {} THEN FALSE ELSE log[Last(idx)].level

ObsCount(log, c) == Cardinality({i \in 1..Len(log) : log[i].cell = c})

DebounceWindow(level) == IF level THEN debounce_time_press ELSE debounce_time_release

\* one read of cell c at time t: a read that differs from the read before
\* starts a run; a run that differs from the debounced level and has lasted
\* the window is a debounce-respecting transition
obs_read(o, c, level, t) ==
    IF level # o.level[c]
    THEN [o EXCEPT !.level[c] = level, !.since[c] = t, !.seen[c] = t]
    ELSE IF level # ObsStable(o.log, c) /\ t - o.since[c] >= DebounceWindow(level)
         THEN [o EXCEPT !.seen[c] = t,
                        !.log = Append(@, [cell |-> c, level |-> level, at |-> t])]
         ELSE [o EXCEPT !.seen[c] = t]

RECURSIVE obs_row(_, _, _, _, _)
obs_row(o, row, col, levels, t) ==
    IF col >= MATRIX_COLS THEN o
    ELSE obs_row(obs_read(o, <<row, col>>, levels[<<row, col>>], t),
                 row, col + 1, levels, t)

Obs == [level |-> obs_level, since |-> obs_since, seen |-> obs_seen, log |-> obs_log]

ObsCommit(o) ==
    /\ obs_level' = o.level
    /\ obs_since' = o.since
    /\ obs_seen' = o.seen
    /\ obs_log' = o.log

\* ------------------------------------------------------------------ actions
ScanTimesUs == {3}

\* the statics after matrix_robust_init (main_robust_example.c:35)
InitWith(w) ==
    /\ now = 0
    /\ raw = [c \in Cells |-> FALSE]
    /\ keymap = DEFAULT_KEYMAP
    /\ current_row = 0
    /\ key_state = [c \in Cells |-> KEY_IDLE]
    /\ key_timestamp = [c \in Cells |-> 0]
    /\ event_queue = [i \in 0..(EVENT_QUEUE_SIZE - 1) |-> KeyEvent(0, 0, 0, 0, 0)]
    /\ event_queue_head = 0
    /\ event_queue_tail = 0
    /\ error_queue = [i \in 0..(ERROR_QUEUE_SIZE - 1) |-> ErrorEvent(0, 0, 0, 0)]
    /\ error_queue_head = 0
    /\ error_queue_tail = 0
    /\ key_callback = FALSE
    /\ error_callback = FALSE
    /\ scanning_active = FALSE
    /\ ghost_detection_enabled = TRUE
    /\ stuck_detection_enabled = TRUE
    /\ stuck_key_timeout = STUCK_KEY_TIMEOUT_MS
    /\ stats = ZeroStats
    /\ pressed_keys = [c \in Cells |-> 0]
    /\ wake_irq = FALSE
    /\ scan_timer = 0
    /\ word = w
    /\ faulted = FALSE
    /\ row_gpio = [r \in Rows |-> 1]
    /\ read_log = <<>>
    /\ event_mutex = "free"
    /\ error_mutex = "free"
    /\ pc = "idle"
    /\ frame = NoFrame
    /\ cleared = <<>>
    /\ last_key_state = [c \in Cells |-> KEY_IDLE]
    /\ debounce_counter = [c \in Cells |-> 0]
    /\ current_key_state = [c \in Cells |-> KEY_IDLE]
    /\ recent_reads = [c \in Cells |-> 0]
    /\ recorded = {}
    /\ key_cb_log = <<>>
    /\ error_cb_log = <<>>
    /\ enq_events = <<>>
    /\ enq_errors = <<>>
    /\ got_events = <<>>
    /\ got_errors = <<>>
    /\ ret = [ok |-> FALSE]
    /\ obs_level = [c \in Cells |-> FALSE]
    /\ obs_since = [c \in Cells |-> 0]
    /\ obs_seen = [c \in Cells |-> 0]
    /\ obs_log = <<>>
    /\ toggles = 0
    /\ calls = 0
    /\ op = [name |-> "init", from |-> "Stopped", stopped |-> FALSE, was_active |-> FALSE]

Init == InitWith(WordMod)

matrix_robust_start_unguarded(m) ==
    [m EXCEPT !.scan_timer = @ + 1, !.scanning_active = TRUE]

\* add_repeating_timer_us arms one more timer
matrix_robust_start(m) ==
    IF ~m.scanning_active
    THEN [m EXCEPT !.scan_timer = @ + 1, !.scanning_active = TRUE]
    ELSE m

\* a contact closes or opens
Toggle(c) ==
    /\ toggles < MaxToggles
    /\ raw' = [raw EXCEPT ![c] = ~@]
    /\ toggles' = toggles + 1
    /\ UNCHANGED <<now, progVars, obsVars, calls>>
    /\ op' = Op("toggle")

Start ==
    /\ ~scanning_active
    /\ Commit(matrix_robust_start(Mem))
    /\ UNCHANGED <<now, raw, obsVars, toggles, calls>>
    /\ op' = Op("start")

\* the repeating timer fires, scan_interval after it fired last, and the
\* callback runs to its end
ScanBody ==
    /\ scanning_active
    /\ ~faulted
    /\ now' = (now + ScanMs) % WordMod
    /\ \E scan_time \in ScanTimesUs,
          div0 \in IF (stats.total_scans + 1) % word = 0 THEN DivideByZero ELSE {"zero"} :
          Commit(scan_timer_callback(Mem, raw, now', scan_time, div0))
    /\ ObsCommit(obs_row(Obs, current_row, 0, raw, now'))
    /\ UNCHANGED <<raw, toggles, calls>>
    /\ op' = Op("scan")

ScanStep(limit) ==
    /\ stats.total_scans < limit
    /\ ScanBody

Scan == ScanStep(MaxScans)

\* ------------------------------------------- one key pressed and released
DebounceCells == {<<0, 1>>, <<2, 3>>}

NextDebounce ==
    \/ Start
    \/ Scan
    \/ \E c \in DebounceCells : Toggle(c)

SpecDebounce == Init /\ [][NextDebounce]_vars

\* --------------------------------------------------- contacts forming a ghost
\* (2,0) and (2,1) in row 2, (0,2) and (1,2) in column 2, and their crossing
GhostCells == {<<2, 0>>, <<2, 1>>, <<0, 2>>, <<1, 2>>, <<2, 2>>}

\* a contact closes and stays closed
Close(c) ==
    /\ ~raw[c]
    /\ raw' = [raw EXCEPT ![c] = TRUE]
    /\ UNCHANGED <<now, progVars, obsVars, toggles, calls>>
    /\ op' = Op("close")

ScanGhost == ScanStep(MaxGhostScans)

NextGhost ==
    \/ Start
    \/ ScanGhost
    \/ \E c \in GhostCells : Close(c)

SpecGhost == Init /\ [][NextGhost]_vars

\* three contacts forming an L, (0,0), (0,1) and (1,0), and the fourth
\* intersection (1,1)
GhostLCells == {<<0, 0>>, <<0, 1>>, <<1, 0>>, <<1, 1>>}

NextGhostL ==
    \/ Start
    \/ ScanGhost
    \/ \E c \in GhostLCells : Close(c)

SpecGhostL == Init /\ [][NextGhostL]_vars

\* ------------------------------------------------------- a key held closed
StuckCells == {<<1, 2>>}

matrix_robust_set_stuck_detection(m, enable, timeout_ms) ==
    [m EXCEPT !.stuck_detection_enabled = enable, !.stuck_key_timeout = timeout_ms]

\* the application configures the detector before it starts the scanner
\* (main_robust_example.c:39, :50)
SetStuckDetection ==
    /\ ~scanning_active
    /\ \E enable \in BOOLEAN, timeout_ms \in {ShortStuckMs, STUCK_KEY_TIMEOUT_MS} :
          Commit(matrix_robust_set_stuck_detection(Mem, enable, timeout_ms))
    /\ UNCHANGED <<now, raw, obsVars, toggles, calls>>
    /\ op' = Op("set_stuck_detection")

NextStuck ==
    \/ Start
    \/ Scan
    \/ SetStuckDetection
    \/ \E c \in StuckCells : Toggle(c)

SpecStuck == Init /\ [][NextStuck]_vars

\* ------------------------------------------------- the event queue by itself
\* the k-th event handed to enqueue_event: cell and state vary with k, and the
\* timestamp k tells the events apart
TestKeyEvent(k) ==
    LET row == (k \div MATRIX_COLS) % MATRIX_ROWS
        col == k % MATRIX_COLS
    IN  KeyEvent(DEFAULT_KEYMAP[<<row, col>>],
                 IF k % 2 = 1 THEN KEY_PRESSED ELSE KEY_RELEASED, row, col, k)

TestErrorEvent(k) ==
    ErrorEvent(IF k % 2 = 1 THEN ERROR_STUCK_KEY ELSE ERROR_GHOST_KEY,
               (k \div MATRIX_COLS) % MATRIX_ROWS, k % MATRIX_COLS, k)

\* the scan step calls enqueue_event(&event)
EnqueueEvent ==
    /\ calls < MaxEnq
    /\ calls' = calls + 1
    /\ Commit(enqueue_event(Mem, TestKeyEvent(calls + 1)))
    /\ UNCHANGED <<now, raw, obsVars, toggles>>
    /\ op' = Op("enqueue_event")

\* the consumer calls matrix_robust_get_event(&event)
GetEvent ==
    /\ Commit(matrix_robust_get_event(Mem))
    /\ UNCHANGED <<now, raw, obsVars, toggles, calls>>
    /\ op' = Op("get_event")

NextEventQueue ==
    \/ EnqueueEvent
    \/ GetEvent

SpecEventQueue == Init /\ [][NextEventQueue]_vars

\* ------------------------------------------------- the error queue by itself
\* the scan step calls enqueue_error(&error)
EnqueueError ==
    /\ calls < MaxErrEnq
    /\ calls' = calls + 1
    /\ Commit(enqueue_error(Mem, TestErrorEvent(calls + 1)))
    /\ UNCHANGED <<now, raw, obsVars, toggles>>
    /\ op' = Op("enqueue_error")

\* the consumer calls matrix_robust_get_error(&error)
GetError ==
    /\ Commit(matrix_robust_get_error(Mem))
    /\ UNCHANGED <<now, raw, obsVars, toggles, calls>>
    /\ op' = Op("get_error")

NextErrorQueue ==
    \/ EnqueueError
    \/ GetError

SpecErrorQueue == Init /\ [][NextErrorQueue]_vars

\* ------------------------------------------------ stopping, sleeping, waking
\* cancel_repeating_timer disarms the timer scan_timer names
matrix_robust_stop(m) ==
    IF m.scanning_active
    THEN [m EXCEPT !.scan_timer = IF @ > 0 THEN @ - 1 ELSE 0, !.scanning_active = FALSE]
    ELSE m

matrix_robust_enable_wake_interrupt(m) == [m EXCEPT !.wake_irq = TRUE]

matrix_robust_disable_wake_interrupt(m) == [m EXCEPT !.wake_irq = FALSE]

\* a handler that returns at once
gpio_interrupt_callback_ignore(m) == m

gpio_interrupt_callback(m) ==
    IF ~m.scanning_active THEN matrix_robust_start(m) ELSE m

matrix_robust_enter_low_power(m) ==
    matrix_robust_enable_wake_interrupt(matrix_robust_stop(m))

matrix_robust_exit_low_power(m) ==
    matrix_robust_start(matrix_robust_disable_wake_interrupt(m))

\* the application calls matrix_robust_start() in whatever state the engine is
StartCall ==
    /\ Commit(matrix_robust_start(Mem))
    /\ UNCHANGED <<now, raw, obsVars, toggles, calls>>
    /\ op' = Op("start")

StopCall ==
    /\ Commit(matrix_robust_stop(Mem))
    /\ UNCHANGED <<now, raw, obsVars, toggles, calls>>
    /\ op' = Op("stop")

EnterLowPower ==
    /\ Commit(matrix_robust_enter_low_power(Mem))
    /\ UNCHANGED <<now, raw, obsVars, toggles, calls>>
    /\ op' = Op("enter_low_power")

ExitLowPower ==
    /\ Commit(matrix_robust_exit_low_power(Mem))
    /\ UNCHANGED <<now, raw, obsVars, toggles, calls>>
    /\ op' = Op("exit_low_power")

\* a falling edge on a column pin whose edge interrupt is enabled
WakeEdge ==
    /\ wake_irq
    /\ Commit(gpio_interrupt_callback(Mem))
    /\ UNCHANGED <<now, raw, obsVars, toggles, calls>>
    /\ op' = Op("wake_edge")

ScanPower == ScanStep(MaxPowerScans)

NextPower ==
    \/ StartCall
    \/ StopCall
    \/ EnterLowPower
    \/ ExitLowPower
    \/ WakeEdge
    \/ ScanPower

SpecPower == Init /\ [][NextPower]_vars

\* ------------------------------------------- the statistics around their wrap
matrix_robust_get_statistics(m) == [m EXCEPT !.ret = [ok |-> TRUE, stats |-> m.stats]]

\* a reset that forgets max_scan_time_us
matrix_robust_reset_statistics_keep_max(m) ==
    [m EXCEPT !.stats = [ZeroStats EXCEPT !.max_scan_time_us = m.stats.max_scan_time_us]]

matrix_robust_reset_statistics(m) == [m EXCEPT !.stats = ZeroStats]

InitNarrow == InitWith(NarrowMod)

WrapStart ==
    /\ ~faulted
    /\ Start

WrapScan ==
    /\ now < ScanMs * MaxWrapScans
    /\ ScanBody

\* the scan step calls enqueue_event(&event); nobody drains the queue
WrapEnqueueEvent ==
    /\ ~faulted
    /\ Commit(enqueue_event(Mem, TestKeyEvent(Len(enq_events) + 1)))
    /\ UNCHANGED <<now, raw, obsVars, toggles, calls>>
    /\ op' = Op("enqueue_event")

WrapEnqueueError ==
    /\ ~faulted
    /\ Len(enq_errors) < MaxWrapErrors
    /\ Commit(enqueue_error(Mem, TestErrorEvent(Len(enq_errors) + 1)))
    /\ UNCHANGED <<now, raw, obsVars, toggles, calls>>
    /\ op' = Op("enqueue_error")

WrapGetError ==
    /\ ~faulted
    /\ GetError

ResetStatistics ==
    /\ ~faulted
    /\ Commit(matrix_robust_reset_statistics(Mem))
    /\ UNCHANGED <<now, raw, obsVars, toggles, calls>>
    /\ op' = Op("reset_statistics")

GetStatistics ==
    /\ ~faulted
    /\ Commit(matrix_robust_get_statistics(Mem))
    /\ UNCHANGED <<now, raw, obsVars, toggles, calls>>
    /\ op' = Op("get_statistics")

NextWrap ==
    \/ WrapStart
    \/ WrapScan
    \/ WrapEnqueueEvent
    \/ WrapEnqueueError
    \/ WrapGetError

SpecWrap == InitNarrow /\ [][NextWrap]_vars

\* ------------------------------------------------- the statistics interface
\* reset_statistics starts total_scans over, so the clock bounds the run
ScanStats ==
    /\ now < ScanMs * MaxStatScans
    /\ ScanBody

StatsEnqueueError ==
    /\ Len(enq_errors) < MaxStatErrors
    /\ EnqueueError

NextStats ==
    \/ Start
    \/ ScanStats
    \/ StatsEnqueueError
    \/ EnterLowPower
    \/ ResetStatistics
    \/ GetStatistics

SpecStats == Init /\ [][NextStats]_vars

\* ---------------------------------------------------- both queues drained
DrainEnqueueEvent ==
    /\ Len(enq_errors) <= MaxOther
    /\ EnqueueEvent

DrainEnqueueError ==
    /\ Len(enq_events) <= MaxOther
    /\ EnqueueError

NextDrain ==
    \/ DrainEnqueueEvent
    \/ GetEvent
    \/ DrainEnqueueError
    \/ GetError

SpecDrain == Init /\ [][NextDrain]_vars

\* ------------------------------------------------ the event queue cleared
matrix_robust_get_event_count(m) ==
    LET count == IF m.event_queue_head >= m.event_queue_tail
                 THEN m.event_queue_head - m.event_queue_tail
                 ELSE EVENT_QUEUE_SIZE - m.event_queue_tail + m.event_queue_head
    IN  [m EXCEPT !.ret = [ok |-> TRUE, count |-> count]]

\* a clear that forgets the read index
matrix_robust_clear_events_head_only(m) == [m EXCEPT !.event_queue_head = 0]

matrix_robust_clear_events(m) ==
    [m EXCEPT !.event_queue_head = 0, !.event_queue_tail = 0]

ClearEnqueueEvent ==
    /\ calls < MaxClearCalls
    /\ EnqueueEvent

ClearEvents ==
    /\ Commit(matrix_robust_clear_events(Mem))
    /\ UNCHANGED <<now, raw, obsVars, toggles, calls>>
    /\ op' = Op("clear_events")

GetEventCount ==
    /\ Commit(matrix_robust_get_event_count(Mem))
    /\ UNCHANGED <<now, raw, obsVars, toggles, calls>>
    /\ op' = Op("get_event_count")

NextClear ==
    \/ ClearEnqueueEvent
    \/ StatsEnqueueError
    \/ GetEvent
    \/ ClearEvents
    \/ GetEventCount

SpecClear == Init /\ [][NextClear]_vars

\* ------------------------------------------------- detectors switched off
matrix_robust_set_ghost_detection(m, enable) ==
    [m EXCEPT !.ghost_detection_enabled = enable]

\* the application configures the detectors before it starts the scanner
\* (main_robust_example.c:38, :39, :50)
SetGhostDetection ==
    /\ ~scanning_active
    /\ \E enable \in BOOLEAN : Commit(matrix_robust_set_ghost_detection(Mem, enable))
    /\ UNCHANGED <<now, raw, obsVars, toggles, calls>>
    /\ op' = Op("set_ghost_detection")

SetStuckOnOff ==
    /\ ~scanning_active
    /\ \E enable \in BOOLEAN :
          Commit(matrix_robust_set_stuck_detection(Mem, enable, ShortStuckMs))
    /\ UNCHANGED <<now, raw, obsVars, toggles, calls>>
    /\ op' = Op("set_stuck_detection")

ScanOff == ScanStep(MaxOffScans)

NextDetectorsOff ==
    \/ SetGhostDetection
    \/ SetStuckOnOff
    \/ Start
    \/ ScanOff
    \/ \E c \in GhostCells : Close(c)

SpecDetectorsOff == Init /\ [][NextDetectorsOff]_vars

\* ------------------------------------------------------ a custom keymap
\* a keymap that differs from the default one in all 16 entries
CUSTOM_KEYMAP == [c \in Cells |-> 16 + MATRIX_COLS * c[1] + c[2]]

\* a memcpy that stops after the first row
matrix_robust_set_keymap_first_row(m, custom_keymap) ==
    [m EXCEPT !.keymap = [c \in Cells |-> IF c[1] = 0 THEN custom_keymap[c] ELSE @[c]]]

matrix_robust_set_keymap(m, custom_keymap) == [m EXCEPT !.keymap = custom_keymap]

\* the application installs its keymap before it starts the scanner
SetKeymap ==
    /\ ~scanning_active
    /\ \E custom_keymap \in {DEFAULT_KEYMAP, CUSTOM_KEYMAP} :
          Commit(matrix_robust_set_keymap(Mem, custom_keymap))
    /\ UNCHANGED <<now, raw, obsVars, toggles, calls>>
    /\ op' = Op("set_keymap")

NextKeymap ==
    \/ SetKeymap
    \/ Start
    \/ Scan
    \/ \E c \in DebounceCells : Toggle(c)

SpecKeymap == Init /\ [][NextKeymap]_vars

\* ------------------------------- the consumer interrupted by the scan timer
\* The alarm interrupt runs scan_timer_callback, and with it enqueue_event and
\* enqueue_error, to its end between any two statements of the normal context;
\* the normal context runs the consumer calls one statement at a time.

\* the events in the slots from tail up to head, oldest first
QueuedEvents(m) ==
    LET n == (m.event_queue_head + EVENT_QUEUE_SIZE - m.event_queue_tail)
                 % EVENT_QUEUE_SIZE
    IN  [i \in 1..n |-> m.event_queue[(m.event_queue_tail + i - 1) % EVENT_QUEUE_SIZE]]

\* matrix_robust_get_event leaving by the empty path with event_mutex held
matrix_robust_get_event_step_keep_mutex(m) ==
    LET slot == m.event_queue[m.event_queue_tail]
    IN  CASE m.pc = "get_event" ->
                 IF m.event_mutex = "free"
                 THEN [m EXCEPT !.event_mutex = "main", !.pc = "get_event_head"]
                 ELSE m
          [] m.pc = "get_event_head" ->
                 [m EXCEPT !.frame.head = m.event_queue_head, !.pc = "get_event_tail"]
          [] m.pc = "get_event_tail" ->
                 IF m.frame.head = m.event_queue_tail
                 THEN [m EXCEPT !.ret = [ok |-> FALSE],
                                !.frame = NoFrame, !.pc = "idle"]
                 ELSE [m EXCEPT !.pc = "get_event_copy"]
          [] m.pc = "get_event_copy" ->
                 [m EXCEPT !.frame.event = [@ EXCEPT !.key = slot.key,
                                                     !.state = slot.state,
                                                     !.row = slot.row,
                                                     !.col = slot.col],
                           !.pc = "get_event_copy2"]
          [] m.pc = "get_event_copy2" ->
                 [m EXCEPT !.frame.event = [@ EXCEPT !.timestamp = slot.timestamp],
                           !.pc = "get_event_advance"]
          [] m.pc = "get_event_advance" ->
                 [m EXCEPT !.event_queue_tail = (@ + 1) % EVENT_QUEUE_SIZE,
                           !.event_mutex = "free",
                           !.ret = [ok |-> TRUE, event |-> m.frame.event],
                           !.got_events = Append(@, m.frame.event),
                           !.frame = NoFrame, !.pc = "idle"]

\* matrix_robust_get_event returning the event without advancing tail
matrix_robust_get_event_step_no_advance(m) ==
    LET slot == m.event_queue[m.event_queue_tail]
    IN  CASE m.pc = "get_event" ->
                 IF m.event_mutex = "free"
                 THEN [m EXCEPT !.event_mutex = "main", !.pc = "get_event_head"]
                 ELSE m
          [] m.pc = "get_event_head" ->
                 [m EXCEPT !.frame.head = m.event_queue_head, !.pc = "get_event_tail"]
          [] m.pc = "get_event_tail" ->
                 IF m.frame.head = m.event_queue_tail
                 THEN [m EXCEPT !.event_mutex = "free", !.ret = [ok |-> FALSE],
                                !.frame = NoFrame, !.pc = "idle"]
                 ELSE [m EXCEPT !.pc = "get_event_copy"]
          [] m.pc = "get_event_copy" ->
                 [m EXCEPT !.frame.event = [@ EXCEPT !.key = slot.key,
                                                     !.state = slot.state,
                                                     !.row = slot.row,
                                                     !.col = slot.col],
                           !.pc = "get_event_copy2"]
          [] m.pc = "get_event_copy2" ->
                 [m EXCEPT !.frame.event = [@ EXCEPT !.timestamp = slot.timestamp],
                           !.pc = "get_event_advance"]
          [] m.pc = "get_event_advance" ->
                 [m EXCEPT !.event_mutex = "free",
                           !.ret = [ok |-> TRUE, event |-> m.frame.event],
                           !.got_events = Append(@, m.frame.event),
                           !.frame = NoFrame, !.pc = "idle"]

\* one statement of matrix_robust_get_event: mutex_enter_blocking (the caller
\* waits while the mutex is held), the read of head, the read of tail and the
\* comparison, the copy of the slot (two words), and the advance of tail with
\* mutex_exit and the return
matrix_robust_get_event_step(m) ==
    LET slot == m.event_queue[m.event_queue_tail]
    IN  CASE m.pc = "get_event" ->
                 IF m.event_mutex = "free"
                 THEN [m EXCEPT !.event_mutex = "main", !.pc = "get_event_head"]
                 ELSE m
          [] m.pc = "get_event_head" ->
                 [m EXCEPT !.frame.head = m.event_queue_head, !.pc = "get_event_tail"]
          [] m.pc = "get_event_tail" ->
                 IF m.frame.head = m.event_queue_tail
                 THEN [m EXCEPT !.event_mutex = "free", !.ret = [ok |-> FALSE],
                                !.frame = NoFrame, !.pc = "idle"]
                 ELSE [m EXCEPT !.pc = "get_event_copy"]
          [] m.pc = "get_event_copy" ->
                 [m EXCEPT !.frame.event = [@ EXCEPT !.key = slot.key,
                                                     !.state = slot.state,
                                                     !.row = slot.row,
                                                     !.col = slot.col],
                           !.pc = "get_event_copy2"]
          [] m.pc = "get_event_copy2" ->
                 [m EXCEPT !.frame.event = [@ EXCEPT !.timestamp = slot.timestamp],
                           !.pc = "get_event_advance"]
          [] m.pc = "get_event_advance" ->
                 [m EXCEPT !.event_queue_tail = (@ + 1) % EVENT_QUEUE_SIZE,
                           !.event_mutex = "free",
                           !.ret = [ok |-> TRUE, event |-> m.frame.event],
                           !.got_events = Append(@, m.frame.event),
                           !.frame = NoFrame, !.pc = "idle"]

\* one statement of matrix_robust_get_error
matrix_robust_get_error_step(m) ==
    LET slot == m.error_queue[m.error_queue_tail]
    IN  CASE m.pc = "get_error" ->
                 IF m.error_mutex = "free"
                 THEN [m EXCEPT !.error_mutex = "main", !.pc = "get_error_head"]
                 ELSE m
          [] m.pc = "get_error_head" ->
                 [m EXCEPT !.frame.head = m.error_queue_head, !.pc = "get_error_tail"]
          [] m.pc = "get_error_tail" ->
                 IF m.frame.head = m.error_queue_tail
                 THEN [m EXCEPT !.error_mutex = "free", !.ret = [ok |-> FALSE],
                                !.frame = NoFrame, !.pc = "idle"]
                 ELSE [m EXCEPT !.pc = "get_error_copy"]
          [] m.pc = "get_error_copy" ->
                 [m EXCEPT !.frame.event = [error_code |-> slot.error_code,
                                            row |-> slot.row, col |-> slot.col,
                                            timestamp |-> 0],
                           !.pc = "get_error_copy2"]
          [] m.pc = "get_error_copy2" ->
                 [m EXCEPT !.frame.event = [@ EXCEPT !.timestamp = slot.timestamp],
                           !.pc = "get_error_advance"]
          [] m.pc = "get_error_advance" ->
                 [m EXCEPT !.error_queue_tail = (@ + 1) % ERROR_QUEUE_SIZE,
                           !.error_mutex = "free",
                           !.ret = [ok |-> TRUE, event |-> m.frame.event],
                           !.got_errors = Append(@, m.frame.event),
                           !.frame = NoFrame, !.pc = "idle"]

\* one statement of matrix_robust_get_event_count: mutex_enter_blocking, the
\* comparison of head with tail, and the subtraction, which reads head again,
\* with mutex_exit and the return
matrix_robust_get_event_count_step(m) ==
    CASE m.pc = "get_event_count" ->
             IF m.event_mutex = "free"
             THEN [m EXCEPT !.event_mutex = "main", !.pc = "get_event_count_cond"]
             ELSE m
      [] m.pc = "get_event_count_cond" ->
             [m EXCEPT !.pc = IF m.event_queue_head >= m.event_queue_tail
                              THEN "get_event_count_diff"
                              ELSE "get_event_count_wrap"]
      [] m.pc = "get_event_count_diff" ->
             [m EXCEPT !.event_mutex = "free",
                       !.ret = [ok |-> TRUE,
                                count |-> U32Sub(m.event_queue_head, m.event_queue_tail)],
                       !.pc = "idle"]
      [] m.pc = "get_event_count_wrap" ->
             [m EXCEPT !.event_mutex = "free",
                       !.ret = [ok |-> TRUE,
                                count |-> (EVENT_QUEUE_SIZE - m.event_queue_tail
                                           + m.event_queue_head) % WordMod],
                       !.pc = "idle"]

\* one statement of matrix_robust_clear_events: mutex_enter_blocking, the
\* store to head, and the store to tail with mutex_exit
matrix_robust_clear_events_step(m) ==
    CASE m.pc = "clear_events" ->
             IF m.event_mutex = "free"
             THEN [m EXCEPT !.event_mutex = "main", !.pc = "clear_events_head"]
             ELSE m
      [] m.pc = "clear_events_head" ->
             [m EXCEPT !.event_queue_head = 0,
                       !.cleared = Append(@, QueuedEvents(m)),
                       !.pc = "clear_events_tail"]
      [] m.pc = "clear_events_tail" ->
             [m EXCEPT !.event_queue_tail = 0, !.event_mutex = "free",
                       !.pc = "idle"]

ConsumerCalls == {"get_event", "get_error", "get_event_count", "clear_events"}

GetEventPcs == {"get_event", "get_event_head", "get_event_tail", "get_event_copy",
                "get_event_copy2", "get_event_advance"}
GetErrorPcs == {"get_error", "get_error_head", "get_error_tail", "get_error_copy",
                "get_error_copy2", "get_error_advance"}
GetEventCountPcs == {"get_event_count", "get_event_count_cond",
                     "get_event_count_diff", "get_event_count_wrap"}
ClearEventsPcs == {"clear_events", "clear_events_head", "clear_events_tail"}

\* the main loop calls a consumer function
ConsumerCall ==
    /\ pc = "idle"
    /\ calls <= MaxIsrCalls \/ calls >= EarlierEvents
    /\ \E f \in ConsumerCalls :
          /\ f = "clear_events" => Len(cleared) < MaxIsrClears
          /\ Commit([Mem EXCEPT !.pc = f])
    /\ UNCHANGED <<now, raw, obsVars, toggles, calls>>
    /\ op' = Op("call")

GetEventStep ==
    /\ pc \in GetEventPcs
    /\ Commit(matrix_robust_get_event_step(Mem))
    /\ UNCHANGED <<now, raw, obsVars, toggles, calls>>
    /\ op' = Op("get_event")

GetErrorStep ==
    /\ pc \in GetErrorPcs
    /\ Commit(matrix_robust_get_error_step(Mem))
    /\ UNCHANGED <<now, raw, obsVars, toggles, calls>>
    /\ op' = Op("get_error")

GetEventCountStep ==
    /\ pc \in GetEventCountPcs
    /\ Commit(matrix_robust_get_event_count_step(Mem))
    /\ UNCHANGED <<now, raw, obsVars, toggles, calls>>
    /\ op' = Op("get_event_count")

ClearEventsStep ==
    /\ pc \in ClearEventsPcs
    /\ Commit(matrix_robust_clear_events_step(Mem))
    /\ UNCHANGED <<now, raw, obsVars, toggles, calls>>
    /\ op' = Op("clear_events")

\* before the consumer is interrupted: the scan step enqueues an event on the
\* empty queue, and the main loop returns it before the next arrives, which
\* moves both indices towards the end of the ring
EarlierEnqueue ==
    /\ pc = "idle"
    /\ calls < EarlierEvents
    /\ got_events = enq_events
    /\ enq_errors = <<>>
    /\ cleared = <<>>
    /\ EnqueueEvent

EarlierGet ==
    /\ pc = "idle"
    /\ calls >= MaxIsrCalls
    /\ calls <= EarlierEvents
    /\ Len(got_events) + 1 = Len(enq_events)
    /\ enq_errors = <<>>
    /\ cleared = <<>>
    /\ GetEvent

\* enqueue calls left
IsrBudget ==
    \/ calls < MaxIsrCalls
    \/ calls >= EarlierEvents /\ calls < EarlierEvents + MaxIsrCalls

\* the alarm interrupt: the scan step calls enqueue_event
IsrEnqueueEvent ==
    /\ IsrBudget
    /\ Len(enq_errors) <= MaxOther
    /\ calls' = calls + 1
    /\ Commit(enqueue_event(Mem, TestKeyEvent(calls + 1)))
    /\ UNCHANGED <<now, raw, obsVars, toggles>>
    /\ op' = Op("enqueue_event")

\* the alarm interrupt: the scan step calls enqueue_error
IsrEnqueueError ==
    /\ IsrBudget
    /\ Len(enq_events) - Len(got_events) <= MaxOther
    /\ calls' = calls + 1
    /\ Commit(enqueue_error(Mem, TestErrorEvent(calls + 1)))
    /\ UNCHANGED <<now, raw, obsVars, toggles>>
    /\ op' = Op("enqueue_error")

NextInterleave ==
    \/ EarlierEnqueue
    \/ EarlierGet
    \/ ConsumerCall
    \/ GetEventStep
    \/ GetErrorStep
    \/ GetEventCountStep
    \/ ClearEventsStep
    \/ IsrEnqueueEvent
    \/ IsrEnqueueError

SpecInterleave == Init /\ [][NextInterleave]_vars

\* ------------------------------------------------ the polled scanner
\* matrix.c: the main loop calls matrix_scan(&event) over and over (main.c:52)

\* the run of like reads of a cell after one more read, counted up to MaxRun
KeepReads(reads, pressed) ==
    IF pressed
    THEN IF reads > 0 THEN (IF reads < MaxRun THEN reads + 1 ELSE reads) ELSE 1
    ELSE IF reads < 0 THEN (IF reads > 0 - MaxRun THEN reads - 1 ELSE reads) ELSE 0 - 1

\* one iteration of the column loop of matrix_scan; ret.ok is event_detected
matrix_scan_column(m, col, pressed) ==
    LET cell == <<m.current_row, col>>
        old == m.debounce_counter[cell]
        counter == IF pressed
                   THEN IF old < DEBOUNCE_PRESS THEN old + 1 ELSE old
                   ELSE IF old > 0 THEN old - 1 ELSE old
        new_state == IF counter >= DEBOUNCE_PRESS THEN KEY_PRESSED ELSE KEY_IDLE
        last == m.last_key_state[cell]
        event == [key |-> m.keymap[cell], state |-> IF new_state = KEY_PRESSED
                                                    THEN KEY_PRESSED ELSE KEY_RELEASED,
                  row |-> m.current_row, col |-> col]
        m1 == [m EXCEPT !.debounce_counter[cell] = counter,
                        !.recent_reads[cell] = KeepReads(@, pressed)]
    IN  IF new_state # last
        THEN IF new_state = KEY_PRESSED /\ last = KEY_IDLE
             THEN [m1 EXCEPT !.ret = IF m.ret.ok THEN @ ELSE [ok |-> TRUE, event |-> event],
                             !.current_key_state[cell] = KEY_PRESSED,
                             !.last_key_state[cell] = new_state,
                             !.recorded = @ \cup {[cell |-> cell, state |-> KEY_PRESSED]}]
             ELSE IF new_state = KEY_IDLE /\ last = KEY_PRESSED
             THEN [m1 EXCEPT !.ret = IF m.ret.ok THEN @ ELSE [ok |-> TRUE, event |-> event],
                             !.current_key_state[cell] = KEY_IDLE,
                             !.last_key_state[cell] = new_state,
                             !.recorded = @ \cup {[cell |-> cell, state |-> KEY_RELEASED]}]
             ELSE [m1 EXCEPT !.last_key_state[cell] = new_state]
        ELSE IF new_state = KEY_PRESSED /\ last = KEY_PRESSED
        THEN [m1 EXCEPT !.current_key_state[cell] = KEY_HELD]
        ELSE m1

RECURSIVE matrix_scan_columns(_, _, _)
matrix_scan_columns(m, col, levels) ==
    IF col >= MATRIX_COLS THEN m
    ELSE matrix_scan_columns(matrix_scan_column(m, col, gpio_read_low(m, col, levels)),
                             col + 1, levels)

\* matrix_scan(&event): all rows high, the current row low, the column loop,
\* the row high again, the cursor to the next row; ret.ok is the return value
matrix_scan(m, levels) ==
    LET m0 == [m EXCEPT !.ret = [ok |-> FALSE], !.recorded = {}]
        m1 == matrix_scan_columns(activate_row(m0), 0, levels)
    IN  next_row(deactivate_row(m1))

\* the main loop calls matrix_scan(&event)
PolledScan ==
    /\ calls < MaxPolledScans
    /\ calls' = calls + 1
    /\ Commit(matrix_scan(Mem, raw))
    /\ UNCHANGED <<now, raw, obsVars, toggles>>
    /\ op' = Op("matrix_scan")

\* two keys of one row
PolledCells == {<<0, 1>>, <<0, 2>>}

NextPolled ==
    \/ PolledScan
    \/ \E c \in PolledCells : Toggle(c)

SpecPolled == Init /\ [][NextPolled]_vars

\* ------------------------------------------------ the engine set up again
\* matrix_robust_init: the keymap copied, the mutexes set up, the rows driven
\* high, key_state, key_timestamp and pressed_keys cleared; every other static
\* keeps its value
matrix_robust_init(m) ==
    [m EXCEPT !.keymap = DEFAULT_KEYMAP,
              !.event_mutex = "free",
              !.error_mutex = "free",
              !.row_gpio = [r \in Rows |-> 1],
              !.key_state = [c \in Cells |-> KEY_IDLE],
              !.key_timestamp = [c \in Cells |-> 0],
              !.pressed_keys = [c \in Cells |-> 0]]

\* the application stops the scanner and calls matrix_robust_init again
InitCall ==
    /\ ~scanning_active
    /\ calls < MaxInitCalls
    /\ calls' = calls + 1
    /\ Commit(matrix_robust_init(Mem))
    /\ UNCHANGED <<now, raw, obsVars, toggles>>
    /\ op' = Op("matrix_robust_init")

ScanReinit == ScanStep(MaxReinitScans)

NextReinit ==
    \/ Start
    \/ ScanReinit
    \/ StopCall
    \/ InitCall
    \/ \E c \in DebounceCells : Toggle(c)

SpecReinit == Init /\ [][NextReinit]_vars

\* ------------------------------------------------------ direct callbacks
\* callback: whether the pointer handed in is a function (TRUE) or NULL (FALSE)
matrix_robust_set_key_callback(m, callback) == [m EXCEPT !.key_callback = callback]

matrix_robust_set_error_callback(m, callback) == [m EXCEPT !.error_callback = callback]

\* the application registers its callback before it starts the scanner
\* (main_robust_example.c:42, :50)
SetKeyCallback ==
    /\ ~scanning_active
    /\ \E callback \in BOOLEAN : Commit(matrix_robust_set_key_callback(Mem, callback))
    /\ UNCHANGED <<now, raw, obsVars, toggles, calls>>
    /\ op' = Op("set_key_callback")

NextKeyCallback ==
    \/ SetKeyCallback
    \/ Start
    \/ Scan
    \/ \E c \in DebounceCells : Toggle(c)

SpecKeyCallback == Init /\ [][NextKeyCallback]_vars

\* registered at setup, before the first error (main_robust_example.c:43)
SetErrorCallback ==
    /\ calls = 0
    /\ \E callback \in BOOLEAN : Commit(matrix_robust_set_error_callback(Mem, callback))
    /\ UNCHANGED <<now, raw, obsVars, toggles, calls>>
    /\ op' = Op("set_error_callback")

NextErrorCallback ==
    \/ SetErrorCallback
    \/ EnqueueError
    \/ GetError

SpecErrorCallback == Init /\ [][NextErrorCallback]_vars

\* ------------------------------------------------------------------- claims
KeyEventsOf(log, c) == SelectSeq(log, LAMBDA e : e.row = c[1] /\ e.col = c[2])

ErrorEventsOf(log, c, code) ==
    SelectSeq(log, LAMBDA e : e.row = c[1] /\ e.col = c[2] /\ e.error_code = code)

\* KeyEvents the scan step produced for cell c with this state, by either path
NumKey(c, state) ==
    Cardinality({i \in 1..Len(enq_events) :
                    /\ enq_events[i].row = c[1] /\ enq_events[i].col = c[2]
                    /\ enq_events[i].state = state})
    + Cardinality({i \in 1..Len(key_cb_log) :
                    /\ key_cb_log[i].row = c[1] /\ key_cb_log[i].col = c[2]
                    /\ key_cb_log[i].state = state})

\* the time of the last debounce-respecting transition of c
LastAt(c) == obs_log[Last({i \in 1..Len(obs_log) : obs_log[i].cell = c})].at

GhostAbsent(c) == ~(ghost_detection_enabled /\ detect_ghost_key(Mem, c[1], c[2]))

\* C1: a cell that starts Idle and reads closed on every scan of its row for
\* at least debounce_press_ms (no ghost condition, queue not full) is Pressed
\* (or, on later scans, Held) and exactly one Pressed KeyEvent was produced for it.
C1_PressConfirmed ==
    \A c \in Cells :
        (/\ ObsCount(obs_log, c) = 1
         /\ ObsStable(obs_log, c)
         /\ GhostAbsent(c)
         /\ stats.queue_overflows = 0)
        => /\ key_state[c] \in {KEY_PRESSED, KEY_HELD}
           /\ NumKey(c, KEY_PRESSED) = 1

\* C2: while no closed run of a cell has lasted debounce_press_ms, no Pressed
\* KeyEvent has been produced for the cell and the cell is Idle.
C2_NoShortPress ==
    \A c \in Cells :
        ObsCount(obs_log, c) = 0
        => /\ key_state[c] = KEY_IDLE
           /\ NumKey(c, KEY_PRESSED) = 0

\* a closed run of a cell ended before the window: the cell read closed at a
\* scan, reads open at a later one, and no run has lasted the window
C2_Witness ==
    \E c \in Cells :
        /\ ObsCount(obs_log, c) = 0
        /\ key_timestamp[c] > 0
        /\ ~obs_level[c]
        /\ obs_seen[c] > key_timestamp[c]

\* C3: a confirmed press stays non-Idle while the open run is shorter than
\* debounce_release_ms, and once the open run has lasted that long the cell is
\* Idle and exactly one Released KeyEvent was produced for the release.
C3_ReleaseConfirmed ==
    \A c \in Cells :
        /\ (ObsStable(obs_log, c) /\ ~obs_level[c] /\ stats.queue_overflows = 0)
            => key_state[c] \in {KEY_PRESSED, KEY_HELD}
        /\ (ObsCount(obs_log, c) = 2 /\ ~ObsStable(obs_log, c)
                /\ stats.queue_overflows = 0)
            => (key_state[c] = KEY_IDLE /\ NumKey(c, KEY_RELEASED) = 1)

\* C4: with no callback and no overflow, the KeyEvents enqueued for a cell are
\* as many as its debounce-respecting transitions, Pressed first and then
\* alternating.
C4_OneEventPerTransition ==
    \A c \in Cells :
        (~key_callback /\ stats.queue_overflows = 0)
        => LET evs == KeyEventsOf(enq_events, c)
           IN  /\ Len(evs) = ObsCount(obs_log, c)
               /\ \A i \in 1..Len(evs) :
                     evs[i].state = IF i % 2 = 1 THEN KEY_PRESSED ELSE KEY_RELEASED

\* C5: with ghost detection on and (R,0), (R,1), (0,C), (1,C) pressed, the scan
\* step at which the closed run of (R,C) has lasted the window enqueues a
\* GhostKey error for (R,C), produces no KeyEvent for it and leaves it Idle.
C5_GhostSuppressed ==
    \A r \in Rows, c \in Cols :
        LET others == {<<r, 0>>, <<r, 1>>, <<0, c>>, <<1, c>>}
            n == Len(obs_log)
        IN  (/\ <<r, c>> \notin others
             /\ ghost_detection_enabled
             /\ n > 0
             /\ obs_log[n].cell = <<r, c>>
             /\ obs_log[n].level
             /\ obs_seen[<<r, c>>] = obs_log[n].at
             /\ \A o \in others : ObsStable(obs_log, o)
             /\ Len(enq_errors) - Len(got_errors) < ERROR_QUEUE_SIZE - 1)
            => /\ Len(ErrorEventsOf(enq_errors, <<r, c>>, ERROR_GHOST_KEY)) >= 1
               /\ NumKey(<<r, c>>, KEY_PRESSED) = 0
               /\ key_state[<<r, c>>] = KEY_IDLE

\* C6: with stuck detection on, a cell whose press was confirmed and that has
\* read closed ever since, for more than stuck_key_timeout_ms, has a StuckKey
\* error.
C6_StuckReported ==
    \A c \in Cells :
        (/\ stuck_detection_enabled
         /\ ObsStable(obs_log, c)
         /\ obs_level[c]
         /\ obs_since[c] <= LastAt(c)
         /\ obs_seen[c] - LastAt(c) > stuck_key_timeout
         /\ Len(enq_errors) - Len(got_errors) < ERROR_QUEUE_SIZE - 1)
        => Len(ErrorEventsOf(enq_errors, c, ERROR_STUCK_KEY)) >= 1

\* events accepted and not yet returned
PendingEvents == Len(enq_events) - Len(got_events)
PendingErrors == Len(enq_errors) - Len(got_errors)

\* C7: the events returned by get_event are the accepted events in the order
\* of their acceptance, and the slots from tail to head hold the accepted
\* events not yet returned, oldest at tail.
C7_Fifo ==
    /\ Len(got_events) <= Len(enq_events)
    /\ got_events = SubSeq(enq_events, 1, Len(got_events))
    /\ (event_queue_head - event_queue_tail) % EVENT_QUEUE_SIZE = PendingEvents
    /\ \A i \in 0..(PendingEvents - 1) :
          event_queue[(event_queue_tail + i) % EVENT_QUEUE_SIZE]
              = enq_events[Len(got_events) + 1 + i]

\* the indices wrapped: events are pending on both sides of the end of the
\* array, after enqueues and drains that interleaved
C7_Witness ==
    /\ event_queue_head < event_queue_tail
    /\ event_queue_head >= 2
    /\ Len(got_events) >= 2
    /\ PendingEvents >= 4

C9_FullDropsNewest ==
    [][(PendingEvents = EVENT_QUEUE_SIZE - 1 /\ calls' = calls + 1)
        => /\ event_queue' = event_queue
           /\ event_queue_head' = event_queue_head
           /\ event_queue_tail' = event_queue_tail
           /\ enq_events' = enq_events
           /\ stats'.queue_overflows = stats.queue_overflows + 1
           /\ event_queue'[event_queue_tail'] = enq_events[Len(got_events) + 1]]_vars

\* an event was dropped and the queue is still full
C9_Witness ==
    /\ stats.queue_overflows >= 1
    /\ PendingEvents = EVENT_QUEUE_SIZE - 1
    /\ event_queue[event_queue_tail] = enq_events[Len(got_events) + 1]

\* C10: every enqueue_error call either stores the error or, the queue being
\* full, drops it and adds one to queue_overflows.
C10_ErrorOverflowCounted ==
    /\ Len(enq_errors) + stats.queue_overflows = calls
    /\ PendingErrors <= ERROR_QUEUE_SIZE - 1

\* C11: a wake edge that finds the engine in LowPower leaves it Active with
\* its one scan timer armed, exit_low_power not having been called
C11_WakeResumesScanning ==
    (op.name = "wake_edge" /\ op.from = "LowPower")
        => (EngineState(Mem) = "Active" /\ scanning_active /\ scan_timer = 1)

C11_Witness ==
    /\ op.name = "wake_edge" /\ op.from = "LowPower"
    /\ scanning_active
    /\ stats.total_scans > 0

\* C12: every step from LowPower to Active, made by a wake edge or by
\* exit_low_power, leaves the column edge interrupts disabled
C12_WakeDisarms ==
    [][(/\ ~scanning_active /\ wake_irq
        /\ scanning_active'
        /\ op'.name \in {"wake_edge", "exit_low_power"}) => ~wake_irq']_vars


\* C15: start on an Active engine, stop on a Stopped engine and
\* enter_low_power on a LowPower engine change nothing, and there is never
\* more than one scan timer armed
MisuseCall(o) ==
    \/ o.name = "start" /\ o.from = "Active"
    \/ o.name = "stop" /\ o.from = "Stopped"
    \/ o.name = "enter_low_power" /\ o.from = "LowPower"

C15_MisuseIsNoOp ==
    /\ [][MisuseCall(op') => UNCHANGED <<now, raw, progVars, obsVars>>]_vars
    /\ [](scan_timer <= 1)

C15_Witness ==
    /\ op.name = "enter_low_power" /\ op.from = "LowPower"
    /\ stats.total_scans > 0
    /\ scan_timer = 0 /\ wake_irq


StatCounters == {"total_scans", "total_events", "total_errors", "queue_overflows"}

\* C13 as stated: without reset_statistics, none of total_scans, total_events,
\* total_errors and queue_overflows ever decreases
C13_CountersNeverDecrease ==
    [][op'.name # "reset_statistics"
        => \A f \in StatCounters : stats'[f] >= stats[f]]_vars

\* C13 amended: without reset_statistics a counter decreases only by wrapping
\* from its greatest value to 0
C13_CountersWrapOnly ==
    [][op'.name # "reset_statistics"
        => \A f \in StatCounters :
              \/ stats'[f] >= stats[f]
              \/ stats[f] = word - 1 /\ stats'[f] = 0]_vars

\* every counter that the runs move has wrapped
C13_Witness ==
    /\ stats.total_scans = 0 /\ now >= ScanMs * NarrowMod
    /\ stats.total_errors = 0 /\ Len(enq_errors) >= NarrowMod
    /\ stats.queue_overflows = 0 /\ Len(enq_events) = EVENT_QUEUE_SIZE - 1
    /\ op.name = "enqueue_event"


\* C14: reset_statistics zeroes the six fields of stats and changes nothing
\* else; get_statistics hands back the fields as they are and changes nothing
C14_ResetAndGetStatistics ==
    [][/\ op'.name = "reset_statistics"
           => /\ stats' = ZeroStats
              /\ \A f \in DOMAIN stats : stats'[f] = 0
              /\ Mem' = [Mem EXCEPT !.stats = stats']
              /\ UNCHANGED <<now, raw>>
       /\ op'.name = "get_statistics"
           => /\ ret'.ok /\ ret'.stats = stats
              /\ Mem' = [Mem EXCEPT !.ret = ret']
              /\ UNCHANGED <<now, raw>>]_vars

C14_Witness ==
    /\ op.name = "reset_statistics"
    /\ stats = ZeroStats
    /\ current_row = MaxStatScans % MATRIX_ROWS
    /\ error_queue_head = MaxStatErrors
    /\ EngineState(Mem) = "LowPower"
    /\ ret.ok /\ ret.stats.total_scans = MaxStatScans /\ ret.stats.max_scan_time_us > 0


\* C16: while a key callback is registered, the callback has received one
\* KeyEvent for every debounce-respecting transition of a cell, Pressed first
\* and then alternating, and the scan steps have left the event queue alone
C16_KeyCallbackBypassesQueue ==
    key_callback
        => /\ \A c \in Cells :
                 LET evs == KeyEventsOf(key_cb_log, c)
                 IN  /\ Len(evs) = ObsCount(obs_log, c)
                     /\ \A i \in 1..Len(evs) :
                           evs[i].state = IF i % 2 = 1 THEN KEY_PRESSED ELSE KEY_RELEASED
           /\ enq_events = <<>>
           /\ event_queue_head = 0 /\ event_queue_tail = 0
           /\ event_queue = [i \in 0..(EVENT_QUEUE_SIZE - 1) |-> KeyEvent(0, 0, 0, 0, 0)]

\* C17: while an error callback is registered, an error handed to
\* enqueue_error goes to the callback, whether the error queue is full or
\* not, and the error queue's head, tail and contents stay as they were
C17_ErrorCallbackBypassesQueue ==
    [][(error_callback /\ op'.name = "enqueue_error")
        => /\ error_cb_log' = Append(error_cb_log, TestErrorEvent(calls'))
           /\ error_queue' = error_queue
           /\ error_queue_head' = error_queue_head
           /\ error_queue_tail' = error_queue_tail]_vars

\* the second half of C17 alone: the callback is invoked for every error
C17_CallbackEveryError ==
    [][(error_callback /\ op'.name = "enqueue_error")
        => error_cb_log' = Append(error_cb_log, TestErrorEvent(calls'))]_vars


\* C18: get_event and get_error on a queue that is not empty return true with
\* the oldest item not yet drained and move tail on by one, leaving head and
\* the slots alone; on an empty queue they return false and change nothing
C18_DrainOldestOrNothing ==
    [][/\ op'.name = "get_event"
           => IF event_queue_head # event_queue_tail
              THEN /\ ret' = [ok |-> TRUE, event |-> enq_events[Len(got_events) + 1]]
                   /\ event_queue_tail' = (event_queue_tail + 1) % EVENT_QUEUE_SIZE
                   /\ Mem' = [Mem EXCEPT !.ret = ret',
                                         !.event_queue_tail = event_queue_tail',
                                         !.got_events = got_events']
              ELSE /\ ~ret'.ok
                   /\ Mem' = [Mem EXCEPT !.ret = ret']
       /\ op'.name = "get_error"
           => IF error_queue_head # error_queue_tail
              THEN /\ ret' = [ok |-> TRUE, event |-> enq_errors[Len(got_errors) + 1]]
                   /\ error_queue_tail' = (error_queue_tail + 1) % ERROR_QUEUE_SIZE
                   /\ Mem' = [Mem EXCEPT !.ret = ret',
                                         !.error_queue_tail = error_queue_tail',
                                         !.got_errors = got_errors']
              ELSE /\ ~ret'.ok
                   /\ Mem' = [Mem EXCEPT !.ret = ret']]_vars

C18_Witness ==
    /\ op.name = "get_error"
    /\ ret.ok
    /\ Len(got_errors) = ERROR_QUEUE_SIZE
    /\ error_queue_tail = 0
    /\ Len(got_events) >= 1


\* C19: when clear_events returns the event queue is empty (the count is 0, a
\* drain finds nothing, and after one more enqueue a drain returns that new
\* event and no older one), and nothing but the two indices has changed
C19_ClearEmptiesQueue ==
    [][op'.name = "clear_events"
        => /\ event_queue_head' = event_queue_tail'
           /\ matrix_robust_get_event_count(Mem').ret.count = 0
           /\ ~matrix_robust_get_event(Mem').ret.ok
           /\ LET e == TestKeyEvent(calls + 1)
                  m1 == enqueue_event(Mem', e)
              IN  /\ matrix_robust_get_event_count(m1).ret.count = 1
                  /\ matrix_robust_get_event(m1).ret = [ok |-> TRUE, event |-> e]
           /\ Mem' = [Mem EXCEPT !.event_queue_head = event_queue_head',
                                 !.event_queue_tail = event_queue_tail']
           /\ UNCHANGED <<error_queue, error_queue_head, error_queue_tail, stats,
                          key_state, key_timestamp, pressed_keys>>]_vars

C19_Witness ==
    /\ op.name = "clear_events"
    /\ event_queue_head = 0 /\ event_queue_tail = 0
    /\ Len(got_events) >= 1
    /\ Len(enq_events) - Len(got_events) >= 2
    /\ error_queue_head > 0


\* C20: any_key_pressed is true exactly when some cell is not Idle, and it is
\* true while a contact is closed whose closed run has lasted debounce_press_ms
C20_AnyKeyPressed ==
    /\ matrix_robust_any_key_pressed(Mem) <=> (\E c \in Cells : key_state[c] # KEY_IDLE)
    /\ \A c \in Cells :
          (raw[c] /\ obs_level[c] /\ ObsStable(obs_log, c) /\ GhostAbsent(c))
              => matrix_robust_any_key_pressed(Mem)

\* the first half of C20 alone
C20_TrueIffNotIdle ==
    matrix_robust_any_key_pressed(Mem) <=> (\E c \in Cells : key_state[c] # KEY_IDLE)


\* the rows an output vector drives low
LowRows(out) == {r \in Rows : out[r] = 0}

\* C21: every scan step reads with one row selected, the rows selected by
\* consecutive scan steps follow each other modulo 4 (so any four in a row are
\* the four rows, once each), and the cursor is in 0..3, one past the row
\* scanned last
C21_RoundRobin ==
    /\ current_row \in 0..(MATRIX_ROWS - 1)
    /\ \A i \in 1..Len(read_log) : Cardinality(LowRows(read_log[i])) = 1
    /\ \A i \in 1..(Len(read_log) - 1) :
          LowRows(read_log[i + 1]) = {(r + 1) % MATRIX_ROWS : r \in LowRows(read_log[i])}
    /\ \A i \in 1..(Len(read_log) - 3) :
          UNION {LowRows(read_log[j]) : j \in i..(i + 3)} = Rows
    /\ Len(read_log) > 0
          => current_row \in {(r + 1) % MATRIX_ROWS : r \in LowRows(read_log[Len(read_log)])}

C21_Witness ==
    /\ Len(read_log) >= 2 * MATRIX_ROWS + 1
    /\ current_row = 1

\* C22: a scan step reads its columns with the current row low and the three
\* other rows high, and returns with all four rows high
C22_OneRowLow ==
    [][op'.name = "scan"
        => /\ read_log' = Append(read_log,
                                 [r \in Rows |-> IF r = current_row THEN 0 ELSE 1])
           /\ \A r \in Rows : row_gpio'[r] = 1]_vars

C22_Witness ==
    /\ op.name = "scan"
    /\ Len(read_log) >= MATRIX_ROWS
    /\ \E c \in Cells : raw[c] /\ obs_level[c]
    /\ \A r \in Rows : row_gpio[r] = 1


\* the time between two scans of the same row
RowPeriod == MATRIX_ROWS * ScanMs

\* scans of the row of cell c, up to the last one, at which the confirmed press
\* of c was older than stuck_key_timeout
StuckScans(c) ==
    Cardinality({k \in 0..MaxScans :
                    obs_seen[c] - k * RowPeriod - LastAt(c) > stuck_key_timeout})

\* C23: with stuck detection on, a cell whose press was confirmed and that has
\* read closed ever since has one StuckKey error for every scan of its row at
\* which the press was older than stuck_key_timeout_ms
C23_StuckStream ==
    \A c \in Cells :
        (/\ stuck_detection_enabled
         /\ ObsStable(obs_log, c)
         /\ obs_level[c]
         /\ obs_since[c] <= LastAt(c)
         /\ StuckScans(c) < ERROR_QUEUE_SIZE - 1
         /\ got_errors = <<>>)
        => Len(ErrorEventsOf(enq_errors, c, ERROR_STUCK_KEY)) = StuckScans(c)


\* ErrorEvents with this code handed out by either path
NumError(code) ==
    Cardinality({i \in 1..Len(enq_errors) : enq_errors[i].error_code = code})
    + Cardinality({i \in 1..Len(error_cb_log) : error_cb_log[i].error_code = code})

\* C24: with ghost detection off there is no GhostKey error and a press that
\* has lasted the debounce window is confirmed although two cells of its row
\* and two cells of its column are pressed; with stuck detection off there is
\* no StuckKey error
C24_DetectorsOff ==
    /\ ~ghost_detection_enabled
        => /\ NumError(ERROR_GHOST_KEY) = 0
           /\ \A r \in Rows, c \in Cols :
                 LET others == {<<r, 0>>, <<r, 1>>, <<0, c>>, <<1, c>>}
                 IN  (/\ <<r, c>> \notin others
                      /\ ObsStable(obs_log, <<r, c>>)
                      /\ \A o \in others : ObsStable(obs_log, o)
                      /\ stats.queue_overflows = 0)
                     => /\ key_state[<<r, c>>] \in {KEY_PRESSED, KEY_HELD}
                        /\ NumKey(<<r, c>>, KEY_PRESSED) = 1
    /\ ~stuck_detection_enabled => NumError(ERROR_STUCK_KEY) = 0

\* the two halves of C24 that say what is not produced
C24_NoErrorsWhenOff ==
    /\ ~ghost_detection_enabled => NumError(ERROR_GHOST_KEY) = 0
    /\ ~stuck_detection_enabled => NumError(ERROR_STUCK_KEY) = 0


C26_StopPreventsScans ==
    op.name = "scan" => ~op.stopped

\* C27: the column edge interrupts are enabled only in LowPower: never while
\* the scan timer is armed, and never on an engine that has not been Active
C27_ArmedOnlyInLowPower ==
    wake_irq => /\ ~scanning_active /\ scan_timer = 0
                /\ op.was_active

\* the first half of C27 alone
C27_NotArmedWhileRunning ==
    ~(wake_irq /\ scan_timer > 0)


\* C28: no operation waits for the other context: whenever the normal context
\* is at a mutex_enter_blocking the mutex is free, every call returns with both
\* mutexes released, and the interrupt-time operations take no mutex at all
C28_NeverWaits ==
    /\ pc \in {"get_event", "get_event_count", "clear_events"} => event_mutex = "free"
    /\ pc = "get_error" => error_mutex = "free"
    /\ pc = "idle" => event_mutex = "free" /\ error_mutex = "free"
    /\ pc \in GetErrorPcs => event_mutex = "free"
    /\ pc \notin GetErrorPcs => error_mutex = "free"

C28_Witness ==
    /\ pc = "get_event"
    /\ Len(got_events) >= 1
    /\ op.name = "enqueue_event"

\* C29: the interrupt-time enqueue never runs while a consumer call is inside
\* the critical section of the queue it writes
C29_EnqueueExcluded ==
    /\ op.name = "enqueue_event" => event_mutex = "free"
    /\ op.name = "enqueue_error" => error_mutex = "free"

\* the sequences of ss joined
RECURSIVE Flatten(_)
Flatten(ss) == IF ss = <<>> THEN <<>> ELSE Head(ss) \o Flatten(Tail(ss))

\* how often e occurs in seq
Occurrences(seq, e) == Cardinality({i \in 1..Len(seq) : seq[i] = e})

\* C30: whatever the interleaving, every event returned by get_event is an
\* accepted event, whole, no event is returned twice, and every accepted event
\* is exactly one of returned, discarded by clear_events, or still queued
C30_ExactlyOnce ==
    /\ \A i \in 1..Len(got_events) : Occurrences(enq_events, got_events[i]) = 1
    /\ \A i, j \in 1..Len(got_events) :
          i < j => got_events[i].timestamp < got_events[j].timestamp
    /\ pc # "clear_events_tail" =>
          \A k \in 1..Len(enq_events) :
             Occurrences(got_events, enq_events[k])
             + Occurrences(Flatten(cleared), enq_events[k])
             + Occurrences(QueuedEvents(Mem), enq_events[k]) = 1

C30_Witness ==
    /\ op.name = "enqueue_event"
    /\ pc = "get_event_copy2"
    /\ Len(got_events) >= 1
    /\ Len(Flatten(cleared)) >= 1

\* C31: in the polled scanner a key is reported Pressed only after
\* DEBOUNCE_PRESS consecutive closed reads of its cell and reported Released
\* only after DEBOUNCE_RELEASE consecutive open reads
C31_ConsecutiveReads ==
    (op.name = "matrix_scan" /\ ret.ok) =>
        LET reads == recent_reads[<<ret.event.row, ret.event.col>>]
        IN  /\ ret.event.state = KEY_PRESSED => reads >= DEBOUNCE_PRESS
            /\ ret.event.state = KEY_RELEASED => 0 - reads >= DEBOUNCE_RELEASE

\* the press half of C31 alone
C31_PressAfterThreeClosed ==
    (op.name = "matrix_scan" /\ ret.ok /\ ret.event.state = KEY_PRESSED) =>
        recent_reads[<<ret.event.row, ret.event.col>>] >= DEBOUNCE_PRESS


\* C32: while an Idle cell reads closed on consecutive scans of its row, only
\* the first closed read writes key_timestamp: a scan step that reads an Idle
\* cell closed, the read before having been closed too, leaves that cell's
\* key_timestamp as it was
C32_TimestampOnFirstClosedOnly ==
    [][op'.name = "scan" =>
          \A col \in Cols :
              LET c == <<current_row, col>>
              IN  (key_state[c] = KEY_IDLE /\ raw[c] /\ obs_level[c]) =>
                      key_timestamp'[c] = key_timestamp[c]]_vars


\* C33: a cell whose press was confirmed and that read closed again at the
\* next scan of its row is Held (the step from Pressed on a closed read)
C33_PressedThenHeld ==
    \A c \in Cells :
        (/\ ObsStable(obs_log, c)
         /\ obs_level[c]
         /\ obs_since[c] <= LastAt(c)
         /\ obs_seen[c] > LastAt(c))
        => key_state[c] = KEY_HELD


\* C34: with ghost detection on and the three cells (r1,c1), (r1,c2), (r2,c1)
\* of an L pressed, the scan step at which the closed run of the fourth
\* intersection (r2,c2) has lasted the window produces a GhostKey error for
\* (r2,c2) and no Pressed KeyEvent for it
C34_GhostOnL ==
    \A r1 \in Rows, r2 \in Rows, c1 \in Cols, c2 \in Cols :
        LET n == Len(obs_log)
        IN  (/\ r1 # r2 /\ c1 # c2
             /\ ghost_detection_enabled
             /\ n > 0
             /\ obs_log[n].cell = <<r2, c2>>
             /\ obs_log[n].level
             /\ obs_seen[<<r2, c2>>] = obs_log[n].at
             /\ \A o \in {<<r1, c1>>, <<r1, c2>>, <<r2, c1>>} : ObsStable(obs_log, o))
            => /\ Len(ErrorEventsOf(enq_errors, <<r2, c2>>, ERROR_GHOST_KEY)) >= 1
               /\ NumKey(<<r2, c2>>, KEY_PRESSED) = 0


\* C35: total_events counts the KeyEvents enqueued or delivered, one for every
\* debounce-respecting transition while the event queue has room, and
\* total_errors counts the ErrorEvents enqueued
C35_CountedPerItem ==
    /\ Len(obs_log) < EVENT_QUEUE_SIZE =>
           /\ stats.total_events = Len(obs_log)
           /\ stats.total_events = Len(enq_events) + Len(key_cb_log)
    /\ stats.total_errors = Len(enq_errors)


\* C36: when matrix_robust_init returns, every cell is Idle with timestamp 0
\* and the row cursor, which names the row the next scan step scans, is at
\* row 0, whatever start, scan steps and stop came before
C36_InitRestartsAtRowZero ==
    op.name = "matrix_robust_init" =>
        /\ \A c \in Cells : key_state[c] = KEY_IDLE /\ key_timestamp[c] = 0
        /\ current_row = 0

\* the cell half of C36 alone
C36_InitClearsCells ==
    op.name = "matrix_robust_init" =>
        \A c \in Cells : key_state[c] = KEY_IDLE /\ key_timestamp[c] = 0


\* C37: the queue indices stay inside their rings, and a returning
\* matrix_robust_get_event_count hands back the number of undrained events, a
\* value from 0 to 31, whatever enqueues interrupted it
C37_IndicesAndCount ==
    /\ event_queue_head \in 0..(EVENT_QUEUE_SIZE - 1)
    /\ event_queue_tail \in 0..(EVENT_QUEUE_SIZE - 1)
    /\ error_queue_head \in 0..(ERROR_QUEUE_SIZE - 1)
    /\ error_queue_tail \in 0..(ERROR_QUEUE_SIZE - 1)
    /\ (op.name = "get_event_count" /\ pc = "idle") =>
           /\ ret.count \in 0..(EVENT_QUEUE_SIZE - 1)
           /\ ret.count = Len(QueuedEvents(Mem))

\* the index half of C37 alone
C37_IndicesInRange ==
    /\ event_queue_head \in 0..(EVENT_QUEUE_SIZE - 1)
    /\ event_queue_tail \in 0..(EVENT_QUEUE_SIZE - 1)
    /\ error_queue_head \in 0..(ERROR_QUEUE_SIZE - 1)
    /\ error_queue_tail \in 0..(ERROR_QUEUE_SIZE - 1)


\* C38: between scan steps the ghost-detection buffer agrees with the cell
\* states: pressed_keys of a cell is 1 exactly when the cell is Pressed or Held
C38_BufferAgrees ==
    \A c \in Cells :
        pressed_keys[c] = 1 <=> key_state[c] \in {KEY_PRESSED, KEY_HELD}

\* a key was read closed across the press window and open across the release
\* window, and the scan steps left its buffer entry and its state in agreement
C38_Witness ==
    \E c \in Cells :
        /\ op.name = "scan"
        /\ ObsCount(obs_log, c) = 2
        /\ pressed_keys[c] = 0
        /\ key_state[c] = KEY_IDLE


\* C39: the divisor of the running-average update, total_scans as the scan
\* step left it, is never zero, total_scans being a w-bit counter that wraps,
\* and the division never faults
C39_DivisorNeverZero ==
    op.name = "scan" => (stats.total_scans # 0 /\ ~faulted)

\* the second half of C39: after the first scan step that follows a reset (or
\* the start), avg_scan_time_us is that step's sample
C39_AverageAfterReset ==
    (op.name = "scan" /\ stats.total_scans = 1) =>
        stats.avg_scan_time_us \in ScanTimesUs


\* C40: every debounced press or release that a matrix_scan call records in
\* last_key_state is reported by that call: it returns true with the row, col,
\* key and state of the cell, also when two cells of the row change in the
\* same call
C40_EveryTransitionReported ==
    op.name = "matrix_scan" =>
        \A x \in recorded :
            /\ ret.ok
            /\ ret.event.row = x.cell[1]
            /\ ret.event.col = x.cell[2]
            /\ ret.event.key = keymap[x.cell]
            /\ ret.event.state = x.state

\* C40 for a call that records one transition
C40_SingleTransitionReported ==
    (op.name = "matrix_scan" /\ Cardinality(recorded) = 1) =>
        \A x \in recorded :
            /\ ret.ok
            /\ ret.event.row = x.cell[1]
            /\ ret.event.col = x.cell[2]
            /\ ret.event.key = keymap[x.cell]
            /\ ret.event.state = x.state

============================================================================
